---- MODULE Spec2Model ----
(***************************************************************************)
(* A model of tools/download_osm.py: the filename sanitizer, the output    *)
(* path of a catalog entry, download_osm_data and the batch driver of the  *)
(* __main__ block, run any number of times against one output directory.   *)
(*                                                                         *)
(* Strings are sequences of one-character strings.  Coordinates are        *)
(* integers in microdegrees (1e-6 degree).  The file system is a map from  *)
(* output path to the content of the file there.                           *)
(***************************************************************************)
EXTENDS Integers, Sequences, FiniteSets, TLC

(***************************************************************************)
(* Bounds of the model.                                                    *)
(***************************************************************************)
\* how many categories of the catalog the driver iterates over
NumCategories == 2

\* longest name sanitize_filename is applied to, the example name apart
MaxNameLen == 4

\* bits of the significand of the floating-point numbers of the model
\* (the doubles of the program have 53)
FloatBits == 24

(***************************************************************************)
(* Configuration.                                                          *)
(***************************************************************************)
\* pause after each API call, in seconds
API_DELAY == 15

(***************************************************************************)
(* The catalog.  An excerpt of the `scenes` dictionary in declaration       *)
(* order: the first two locations of its first two categories and the      *)
(* first location of its third, each as (lat, lon, name).                  *)
(***************************************************************************)
scenes ==
  << [category  |-> <<"D","e","n","s","e","_","U","r","b","a","n","_","H","i","g","h","_","R","i","s","e">>,
      locations |-> <<
        <<40758000, -73985500, <<"T","i","m","e","s","_","S","q","u","a","r","e","_","N","Y","C">> >>,
        <<31239700, 121505000, <<"L","u","j","i","a","z","u","i","_","S","h","a","n","g","h","a","i">> >> >>],
     [category  |-> <<"D","e","n","s","e","_","U","r","b","a","n","_","M","i","d","_","R","i","s","e">>,
      locations |-> <<
        <<48858400, 2294500, <<"E","i","f","f","e","l","_","T","o","w","e","r","_","V","i","c","i","n","i","t","y","_","P","a","r","i","s">> >>,
        <<41902800, 12496400, <<"T","r","e","v","i","_","F","o","u","n","t","a","i","n","_","V","i","c","i","n","i","t","y","_","R","o","m","e">> >> >>],
     [category  |-> <<"U","r","b","a","n","_","C","a","n","y","o","n">>,
      locations |-> <<
        <<40756800, -73975200, <<"P","a","r","k","_","A","v","e","n","u","e","_","M","i","d","t","o","w","n","_","N","Y","C">> >> >>] >>

\* the categories the driver iterates over, as indices into scenes
Categories == 1..NumCategories

\* the (category index, location index) pairs of the catalog
Entries ==
  UNION { { <<c, i>> : i \in 1..Len(scenes[c].locations) } : c \in Categories }

RECURSIVE SumLen(_)
SumLen(c) == IF c = 0 THEN 0 ELSE Len(scenes[c].locations) + SumLen(c - 1)

\* total_locations = sum(len(coords) for coords in scenes.values())
total_locations == SumLen(NumCategories)

(***************************************************************************)
(* Character classes of the regular expressions of sanitize_filename.      *)
(* "é" stands for the non-ASCII letters that \w matches on a str pattern.  *)
(***************************************************************************)
Whitespace == {" ", "\t", "\n"}

Letters ==
  {"A","B","C","D","E","F","G","H","I","J","K","L","M","N","O","P","Q","R","S","T","U","V","W","X","Y","Z",
   "a","b","c","d","e","f","g","h","i","j","k","l","m","n","o","p","q","r","s","t","u","v","w","x","y","z",
   "é"}

Digits == {"0","1","2","3","4","5","6","7","8","9"}

\* [\s/\\:]
Separators == Whitespace \cup {"/", "\\", ":"}

\* [\w\-\.]
Kept == Letters \cup Digits \cup {"_", "-", "."}

(***************************************************************************)
(* String helpers: str.strip and re.sub on sequences of characters.        *)
(***************************************************************************)
RECURSIVE LStrip(_, _)
LStrip(s, set) ==
  IF s = <<>> \/ Head(s) \notin set THEN s ELSE LStrip(Tail(s), set)

RECURSIVE RStrip(_, _)
RStrip(s, set) ==
  IF s = <<>> \/ s[Len(s)] \notin set THEN s
  ELSE RStrip(SubSeq(s, 1, Len(s) - 1), set)

\* mutant of Strip: only the leading characters are stripped
StripLeading(s, set) == LStrip(s, set)

\* s.strip(chars)
Strip(s, set) == RStrip(LStrip(s, set), set)

\* re.sub("[set]+", rep, s): every maximal run of characters of set becomes rep
RECURSIVE SubRuns(_, _, _)
SubRuns(s, set, rep) ==
  IF s = <<>> THEN <<>>
  ELSE IF Head(s) \in set THEN rep \o SubRuns(LStrip(s, set), set, rep)
  ELSE <<Head(s)>> \o SubRuns(Tail(s), set, rep)

\* re.sub("[c]{2,}", c, s): every run of two or more c becomes one c
RECURSIVE Collapse(_, _)
Collapse(s, c) ==
  IF s = <<>> THEN <<>>
  ELSE IF Len(s) >= 2 /\ s[1] = c /\ s[2] = c THEN <<c>> \o Collapse(LStrip(s, {c}), c)
  ELSE <<Head(s)>> \o Collapse(Tail(s), c)

\* mutant of sanitize_filename: underscores and hyphens are stripped before
\* the problematic characters are removed
sanitize_filename_StripFirst(name) ==
  LET n1 == Strip(name, Whitespace)
      n2 == SubRuns(n1, Separators, <<"_">>)
      n3 == Strip(n2, {"_", "-"})
      n4 == SelectSeq(n3, LAMBDA ch : ch \in Kept)
      n5 == Collapse(n4, "_")
      n6 == Collapse(n5, "-")
  IN  IF n6 = <<>> THEN <<"u","n","n","a","m","e","d">> ELSE n6

\* mutant of sanitize_filename: runs of hyphens are not collapsed
sanitize_filename_NoHyphenCollapse(name) ==
  LET n1 == Strip(name, Whitespace)
      n2 == SubRuns(n1, Separators, <<"_">>)
      n3 == SelectSeq(n2, LAMBDA ch : ch \in Kept)
      n4 == Collapse(n3, "_")
      n6 == Strip(n4, {"_", "-"})
  IN  IF n6 = <<>> THEN <<"u","n","n","a","m","e","d">> ELSE n6

sanitize_filename(name) ==
  LET n1 == Strip(name, Whitespace)
      n2 == SubRuns(n1, Separators, <<"_">>)
      n3 == SelectSeq(n2, LAMBDA ch : ch \in Kept)
      n4 == Collapse(n3, "_")
      n5 == Collapse(n4, "-")
      n6 == Strip(n5, {"_", "-"})
  IN  IF n6 = <<>> THEN <<"u","n","n","a","m","e","d">> ELSE n6

(***************************************************************************)
(* The output path of a catalog entry.                                     *)
(***************************************************************************)
Abs(x) == IF x < 0 THEN -x ELSE x

\* f"{x:.4f}": the sign and the magnitude rounded to four decimals
\* (in units of 1e-4 degree); a negative value that rounds to zero keeps
\* its sign ("-0.0000")
Fmt4(x) == [neg |-> x < 0, mag |-> (Abs(x) + 50) \div 100]

\* mutant of OutputPath: the file is named after the category alone
OutputPathCategoryOnly(e) ==
  LET sanitized_category == sanitize_filename(scenes[e[1]].category)
  IN  [dir |-> sanitized_category, file |-> <<sanitized_category>>]

\* filename = f"{sanitized_category}_{sanitized_name}_{lat:.4f}_{lon:.4f}.osm"
\* output_path = os.path.join(OUTPUT_BASE_DIR, sanitized_category, filename)
OutputPath(e) ==
  LET sanitized_category == sanitize_filename(scenes[e[1]].category)
      loc == scenes[e[1]].locations[e[2]]
      sanitized_name == sanitize_filename(loc[3])
  IN  [dir  |-> sanitized_category,
       file |-> <<sanitized_category, sanitized_name, Fmt4(loc[1]), Fmt4(loc[2])>>]

\* the output path of every catalog entry
output_path == [e \in Entries |-> OutputPath(e)]

\* the paths of the output directory the model follows
Paths == { output_path[e] : e \in Entries }

(***************************************************************************)
(* Floating-point numbers.  A quantity is an integer number of units       *)
(* (degrees: 1e-6 degree, radians: 1e-6 radian, a cosine: 1e-5, a radius:  *)
(* 1e-5 km); a float is a quantity with at most FloatBits significant      *)
(* bits, and the result of an operation is the float nearest to it, ties   *)
(* to even.                                                                *)
(***************************************************************************)
RECURSIVE Pow2(_)
Pow2(n) == IF n = 0 THEN 1 ELSE 2 * Pow2(n - 1)

\* the distance between the floats around x
Ulp(x) ==
  LET fits(e) == Abs(x) \div Pow2(e) < Pow2(FloatBits)
  IN  Pow2(CHOOSE e \in 0..(31 - FloatBits) :
             fits(e) /\ (e = 0 \/ ~fits(e - 1)))

\* the float nearest to x
Fl(x) ==
  LET u == Ulp(x)
      q == Abs(x) \div u
      r == Abs(x) % u
      m == IF 2 * r > u \/ (2 * r = u /\ q % 2 = 1) THEN q + 1 ELSE q
  IN  IF x < 0 THEN -(m * u) ELSE m * u

\* a / b to the nearest unit, for a >= 0 and b > 0
RoundDiv(a, b) == (a \div b) + (IF 2 * (a % b) >= b THEN 1 ELSE 0)

\* math.degrees(x) for x >= 0: x * 57.296, microradians to microdegrees
Degrees(x) == Fl(57 * x + (x \div 1000) * 296 + ((x % 1000) * 296) \div 1000)

\* math.cos(math.radians(lat_deg)) in units of 1e-5, at the latitudes (in
\* microdegrees) the model evaluates it at
CosTable ==
  { <<0, 100000>>, <<5000, 100000>>, <<1000000, 99985>>,
    <<33555000, 83336>>, <<40758000, 75747>>, <<51511400, 62236>>,
    <<60000000, 50000>>, <<80000000, 17365>>, <<89998896, 2>>,
    <<89999400, 1>>, <<90000000, 0>>, <<95000000, -8716>>,
    <<-90000000, 0>>, <<-28000000, 88295>> }

Cos(lat_deg) == (CHOOSE t \in CosTable : t[1] = lat_deg)[2]

(***************************************************************************)
(* calculate_bounding_box.                                                 *)
(***************************************************************************)
\* earth_radius_km = 6371.0
earth_radius_km == 6371

\* the 0.1 km below which the parallel radius counts as near a pole, in
\* units of 1e-5 km
pole_radius == 10000

\* mutant of NearPole: only a negative parallel radius takes the fallback
NearPoleNegativeOnly(parallel_radius_km) == parallel_radius_km < 0

\* if parallel_radius_km < 0.1
NearPole(parallel_radius_km) == parallel_radius_km < pole_radius

\* (size_km / 2.0) / earth_radius_km in microradians; half_m is size_km / 2
\* in metres
HalfOverEarthRadius(half_m) == Fl(RoundDiv(half_m * 1000, earth_radius_km))

\* (size_km / 2.0) / radius in microradians, for a radius of at least 1 m;
\* the radius is taken to the metre
HalfOverRadius(half_m, radius) == Fl(RoundDiv(half_m * 1000000, radius \div 100))

\* mutant of calculate_bounding_box: min_lon is taken with the latitude delta
calculate_bounding_box_MinLonByLat(lat_deg, lon_deg, size_km) ==
  LET half_m == size_km * 500
      delta_lat_deg == Degrees(HalfOverEarthRadius(half_m))
      parallel_radius_km == Fl(earth_radius_km * Cos(lat_deg))
      near_pole == NearPole(parallel_radius_km)
      divisor == IF near_pole THEN Fl(earth_radius_km * Cos(1000000))
                 ELSE parallel_radius_km
      delta_lon_deg == Degrees(HalfOverRadius(half_m, divisor))
  IN  IF divisor \div 100 = 0
      THEN [raised |-> TRUE, warned |-> near_pole, divisor |-> divisor,
            delta_lat_deg |-> delta_lat_deg, delta_lon_deg |-> 0,
            min_lat |-> 0, min_lon |-> 0, max_lat |-> 0, max_lon |-> 0]
      ELSE [raised |-> FALSE, warned |-> near_pole, divisor |-> divisor,
            delta_lat_deg |-> delta_lat_deg, delta_lon_deg |-> delta_lon_deg,
            min_lat |-> Fl(lat_deg - delta_lat_deg),
            min_lon |-> Fl(lon_deg - delta_lat_deg),
            max_lat |-> Fl(lat_deg + delta_lat_deg),
            max_lon |-> Fl(lon_deg + delta_lon_deg)]

\* the box returned, with what the call did on the way: whether the division
\* raised ZeroDivisionError, whether the warning was printed, the radius the
\* longitude delta was divided by, and the two deltas
calculate_bounding_box(lat_deg, lon_deg, size_km) ==
  LET half_m == size_km * 500
      delta_lat_deg == Degrees(HalfOverEarthRadius(half_m))
      parallel_radius_km == Fl(earth_radius_km * Cos(lat_deg))
      near_pole == NearPole(parallel_radius_km)
      divisor == IF near_pole THEN Fl(earth_radius_km * Cos(1000000))
                 ELSE parallel_radius_km
      delta_lon_deg == Degrees(HalfOverRadius(half_m, divisor))
  IN  IF divisor \div 100 = 0
      THEN [raised |-> TRUE, warned |-> near_pole, divisor |-> divisor,
            delta_lat_deg |-> delta_lat_deg, delta_lon_deg |-> 0,
            min_lat |-> 0, min_lon |-> 0, max_lat |-> 0, max_lon |-> 0]
      ELSE [raised |-> FALSE, warned |-> near_pole, divisor |-> divisor,
            delta_lat_deg |-> delta_lat_deg, delta_lon_deg |-> delta_lon_deg,
            min_lat |-> Fl(lat_deg - delta_lat_deg),
            min_lon |-> Fl(lon_deg - delta_lon_deg),
            max_lat |-> Fl(lat_deg + delta_lat_deg),
            max_lon |-> Fl(lon_deg + delta_lon_deg)]

(***************************************************************************)
(* The state of the driver and of the output directory.                    *)
(***************************************************************************)
VARIABLES
  pc,               \* where the __main__ block is
  ci,               \* index of the category of the outer loop
  li,               \* index of the location of the inner loop
  processed_count,
  success_count,
  failed_count,
  success,          \* the value download_osm_data returned
  resp,             \* what the network call of download_osm_data produced
  fs,               \* output directory: path -> content of the file there
  fs0,              \* fs when the current run started
  found,            \* per entry, what the run found at its path on reaching it
  out,              \* per entry, what happened to it in the current run
  ncalls,           \* network calls issued per entry in the current run
  inflight,         \* entries whose network call has not returned yet
  order,            \* the entries in the order the current run reached them
  delayed,          \* entries after which the current run slept
  wrote,            \* entries whose file the current run created
  wrotePrev,        \* entries whose file an earlier run created
  slept,            \* seconds slept since the run's last network call returned
  san,              \* a call of sanitize_filename: its argument and results
  box               \* a call of calculate_bounding_box: arguments and result

vars == <<pc, ci, li, processed_count, success_count, failed_count, success,
          resp, fs, fs0, found, out, ncalls, inflight, order, delayed, wrote,
          wrotePrev, slept, san, box>>

\* no call of a helper function is followed on its own
NoCall == [fn |-> "none"]

\* response.content of the answers the server may give
Payloads == {"p1", "p2"}

\* response.status_code of the answers the server may give
Statuses == {200, 204, 304, 404, 429, 503}

NoResp == [kind |-> "none", status |-> 0, content |-> "", io |-> "none"]

\* what requests.post and the write of the file may do: an exception of
\* requests.post, or a response and how far open() and f.write() get
Outcomes ==
  [kind : {"timeout", "transport", "unexpected"}, status : {0}, content : {""},
   io : {"none"}]
  \cup [kind : {"response"}, status : Statuses, content : Payloads,
        io : {"none", "open_failed", "write_failed", "written"}]

\* mutant of Exists: the check looks at a path that is never written
ExistsWrongPath(f, p) == FALSE

\* os.path.exists(output_path)
Exists(f, p) == f[p] # "absent"

\* mutant of RaisesForStatus: only server errors raise
RaisesFor5xx(status) == status >= 500 /\ status < 600

\* response.raise_for_status() raises HTTPError
RaisesForStatus(status) == status >= 400 /\ status < 600

\* mutant of Cur: the locations of a category are walked backwards
CurReversed == <<ci, Len(scenes[ci].locations) + 1 - li>>

\* the entry the loops are at
Cur == <<ci, li>>

Init ==
  /\ pc = "start"
  /\ ci = 0
  /\ li = 0
  /\ processed_count = 0
  /\ success_count = 0
  /\ failed_count = 0
  /\ success = FALSE
  /\ resp = NoResp
  /\ fs \in [Paths -> {"absent", "old"}]
  /\ fs0 = fs
  /\ found = [e \in Entries |-> "unreached"]
  /\ out = [e \in Entries |-> "pending"]
  /\ ncalls = [e \in Entries |-> 0]
  /\ inflight = {}
  /\ order = <<>>
  /\ delayed = {}
  /\ wrote = {}
  /\ wrotePrev = {}
  /\ slept = -1
  /\ san = NoCall
  /\ box = NoCall

\* os.makedirs(OUTPUT_BASE_DIR, exist_ok=True) and the counters; an OSError
\* of makedirs is not caught and ends the program
Start ==
  /\ pc = "start"
  /\ \/ /\ pc' = "category"
        /\ ci' = 1
        /\ processed_count' = 0
        /\ success_count' = 0
        /\ failed_count' = 0
     \/ /\ pc' = "aborted"
        /\ UNCHANGED <<ci, processed_count, success_count, failed_count>>
  /\ UNCHANGED <<li, success, resp, fs, fs0, found, out, ncalls, inflight,
                 order, delayed, wrote, wrotePrev>>
  /\ UNCHANGED <<slept, san, box>>

\* for category, locations in scenes.items(): sanitize, makedirs(category_dir)
EnterCategory ==
  /\ pc = "category"
  /\ ci <= NumCategories
  /\ \/ pc' = "location" /\ li' = 1
     \/ pc' = "aborted" /\ li' = li
  /\ UNCHANGED <<ci, processed_count, success_count, failed_count, success,
                 resp, fs, fs0, found, out, ncalls, inflight, order, delayed,
                 wrote, wrotePrev>>
  /\ UNCHANGED <<slept, san, box>>

\* the outer loop is exhausted: the download summary
Summary ==
  /\ pc = "category"
  /\ ci > NumCategories
  /\ pc' = "done"
  /\ UNCHANGED <<ci, li, processed_count, success_count, failed_count, success,
                 resp, fs, fs0, found, out, ncalls, inflight, order, delayed,
                 wrote, wrotePrev>>
  /\ UNCHANGED <<slept, san, box>>

\* the inner loop is exhausted: on to the next category
EndCategory ==
  /\ pc = "location"
  /\ li > Len(scenes[ci].locations)
  /\ ci' = ci + 1
  /\ pc' = "category"
  /\ UNCHANGED <<li, processed_count, success_count, failed_count, success,
                 resp, fs, fs0, found, out, ncalls, inflight, order, delayed,
                 wrote, wrotePrev>>
  /\ UNCHANGED <<slept, san, box>>

\* mutant of BeginLocation: a skipped location is not counted as a success
BeginLocationSkipUncounted ==
  /\ pc = "location"
  /\ li <= Len(scenes[ci].locations)
  /\ processed_count' = processed_count + 1
  /\ order' = Append(order, Cur)
  /\ found' = [found EXCEPT ![Cur] = fs[output_path[Cur]]]
  /\ IF Exists(fs, output_path[Cur])
     THEN /\ out' = [out EXCEPT ![Cur] = "skipped"]
          /\ li' = li + 1
          /\ UNCHANGED <<pc, ncalls, inflight>>
     ELSE /\ pc' = "request"
          /\ ncalls' = [ncalls EXCEPT ![Cur] = @ + 1]
          /\ inflight' = inflight \cup {Cur}
          /\ UNCHANGED <<out, li>>
  /\ UNCHANGED <<ci, success_count, failed_count, success, resp, fs, fs0,
                 delayed, wrote, wrotePrev>>
  /\ UNCHANGED <<slept, san, box>>

\* one location up to the network call: count it, build the output path, skip
\* it if the file exists, otherwise enter download_osm_data up to requests.post
BeginLocation ==
  /\ pc = "location"
  /\ li <= Len(scenes[ci].locations)
  /\ processed_count' = processed_count + 1
  /\ order' = Append(order, Cur)
  /\ found' = [found EXCEPT ![Cur] = fs[output_path[Cur]]]
  /\ IF Exists(fs, output_path[Cur])
     THEN /\ success_count' = success_count + 1
          /\ out' = [out EXCEPT ![Cur] = "skipped"]
          /\ li' = li + 1
          /\ UNCHANGED <<pc, ncalls, inflight>>
     ELSE /\ pc' = "request"
          /\ ncalls' = [ncalls EXCEPT ![Cur] = @ + 1]
          /\ inflight' = inflight \cup {Cur}
          /\ UNCHANGED <<success_count, out, li>>
  /\ UNCHANGED <<ci, failed_count, success, resp, fs, fs0, delayed, wrote,
                 wrotePrev>>
  /\ UNCHANGED <<slept, san, box>>

\* an exception is raised inside the try block of download_osm_data: by
\* requests.post, by raise_for_status, by open or by f.write
Raised(r) ==
  \/ r.kind # "response"
  \/ RaisesForStatus(r.status)
  \/ r.io # "written"

\* mutant of Written: the payload goes to another file than output_path
WrittenElsewhere(old, content, io) == old

\* what the file at the output path holds after open(path, "wb") and
\* f.write(response.content): io is how far the two calls got
Written(old, content, io) ==
  CASE io = "open_failed"  -> old
    [] io = "write_failed" -> "partial"
    [] OTHER               -> content

\* download_osm_data from the return of requests.post on: the exception
\* raised or the response received, the file written, the value returned
download_osm_data ==
  /\ pc = "request"
  /\ \E r \in Outcomes :
       \* the file is opened if and only if raise_for_status does not raise
       /\ r.kind = "response" => (r.io = "none" <=> RaisesForStatus(r.status))
       /\ resp' = r
       /\ IF r.kind = "response" /\ ~RaisesForStatus(r.status)
          THEN /\ fs' = [fs EXCEPT ![output_path[Cur]] = Written(@, r.content, r.io)]
               /\ wrote' = IF r.io = "open_failed" THEN wrote ELSE wrote \cup {Cur}
          ELSE UNCHANGED <<fs, wrote>>
       /\ success' = ~Raised(r)
       /\ out' = [out EXCEPT ![Cur] = IF Raised(r) THEN "failed" ELSE "ok"]
  /\ inflight' = inflight \ {Cur}
  /\ pc' = "returned"
  /\ UNCHANGED <<ci, li, processed_count, success_count, failed_count, fs0,
                 found, ncalls, order, delayed, wrotePrev>>
  /\ slept' = 0
  /\ UNCHANGED <<san, box>>

\* mutant of Count: a failed download ends the batch
CountBreakOnFailure ==
  /\ pc = "returned"
  /\ IF success
     THEN success_count' = success_count + 1 /\ UNCHANGED failed_count
     ELSE failed_count' = failed_count + 1 /\ UNCHANGED success_count
  /\ IF ~success
     THEN pc' = "done" /\ UNCHANGED <<li, delayed>>
     ELSE IF processed_count < total_locations
     THEN pc' = "delay" /\ delayed' = delayed \cup {Cur} /\ UNCHANGED li
     ELSE pc' = "location" /\ li' = li + 1 /\ UNCHANGED delayed
  /\ resp' = NoResp
  /\ success' = FALSE
  /\ UNCHANGED <<ci, processed_count, fs, fs0, found, out, ncalls, inflight,
                 order, wrote, wrotePrev>>
  /\ UNCHANGED <<slept, san, box>>

\* mutant of Count: the delay also follows the last location
CountDelayAlways ==
  /\ pc = "returned"
  /\ IF success
     THEN success_count' = success_count + 1 /\ UNCHANGED failed_count
     ELSE failed_count' = failed_count + 1 /\ UNCHANGED success_count
  /\ pc' = "delay"
  /\ delayed' = delayed \cup {Cur}
  /\ resp' = NoResp
  /\ success' = FALSE
  /\ UNCHANGED <<ci, li, processed_count, fs, fs0, found, out, ncalls, inflight,
                 order, wrote, wrotePrev>>
  /\ UNCHANGED <<slept, san, box>>

\* mutant of Count: a failed download is requested again until it succeeds
CountRetry ==
  /\ pc = "returned"
  /\ IF success
     THEN /\ success_count' = success_count + 1
          /\ IF processed_count < total_locations
             THEN pc' = "delay" /\ delayed' = delayed \cup {Cur} /\ UNCHANGED li
             ELSE pc' = "location" /\ li' = li + 1 /\ UNCHANGED delayed
          /\ UNCHANGED inflight
     ELSE /\ pc' = "request"
          /\ inflight' = inflight \cup {Cur}
          /\ UNCHANGED <<success_count, li, delayed>>
  /\ resp' = NoResp
  /\ success' = FALSE
  /\ UNCHANGED <<ci, processed_count, failed_count, fs, fs0, found, out, ncalls,
                 order, wrote, wrotePrev>>
  /\ UNCHANGED <<slept, san, box>>

\* mutant of Count: a failed download is requested a second time
CountRetryOnce ==
  /\ pc = "returned"
  /\ IF ~success /\ ncalls[Cur] < 2
     THEN /\ pc' = "request"
          /\ ncalls' = [ncalls EXCEPT ![Cur] = @ + 1]
          /\ inflight' = inflight \cup {Cur}
          /\ UNCHANGED <<success_count, failed_count, li, delayed>>
     ELSE /\ IF success
             THEN success_count' = success_count + 1 /\ UNCHANGED failed_count
             ELSE failed_count' = failed_count + 1 /\ UNCHANGED success_count
          /\ IF processed_count < total_locations
             THEN pc' = "delay" /\ delayed' = delayed \cup {Cur} /\ UNCHANGED li
             ELSE pc' = "location" /\ li' = li + 1 /\ UNCHANGED delayed
          /\ UNCHANGED <<ncalls, inflight>>
  /\ resp' = NoResp
  /\ success' = FALSE
  /\ UNCHANGED <<ci, processed_count, fs, fs0, found, out, order, wrote,
                 wrotePrev>>
  /\ UNCHANGED <<slept, san, box>>

\* mutant of Count: the delay follows successful downloads only
CountDelayOnSuccessOnly ==
  /\ pc = "returned"
  /\ IF success
     THEN success_count' = success_count + 1 /\ UNCHANGED failed_count
     ELSE failed_count' = failed_count + 1 /\ UNCHANGED success_count
  /\ IF success /\ processed_count < total_locations
     THEN /\ pc' = "delay"
          /\ delayed' = delayed \cup {Cur}
          /\ UNCHANGED li
     ELSE /\ pc' = "location"
          /\ li' = li + 1
          /\ UNCHANGED delayed
  /\ resp' = NoResp
  /\ success' = FALSE
  /\ UNCHANGED <<ci, processed_count, fs, fs0, found, out, ncalls, inflight,
                 order, wrote, wrotePrev>>
  /\ UNCHANGED <<slept, san, box>>

\* the counters after download_osm_data returned, and the polite delay
Count ==
  /\ pc = "returned"
  /\ IF success
     THEN success_count' = success_count + 1 /\ UNCHANGED failed_count
     ELSE failed_count' = failed_count + 1 /\ UNCHANGED success_count
  /\ IF processed_count < total_locations
     THEN /\ pc' = "delay"
          /\ delayed' = delayed \cup {Cur}
          /\ UNCHANGED li
     ELSE /\ pc' = "location"
          /\ li' = li + 1
          /\ UNCHANGED delayed
  /\ resp' = NoResp
  /\ success' = FALSE
  /\ UNCHANGED <<ci, processed_count, fs, fs0, found, out, ncalls, inflight,
                 order, wrote, wrotePrev>>
  /\ UNCHANGED <<slept, san, box>>

\* time.sleep(API_DELAY) returns
Wake ==
  /\ pc = "delay"
  /\ pc' = "location"
  /\ li' = li + 1
  /\ UNCHANGED <<ci, processed_count, success_count, failed_count, success, resp,
                 fs, fs0, found, out, ncalls, inflight, order, delayed, wrote,
                 wrotePrev>>
  /\ slept' = slept + API_DELAY
  /\ UNCHANGED <<san, box>>

\* the program is started again against the same output directory
Restart ==
  /\ pc \in {"done", "aborted"}
  /\ pc' = "start"
  /\ ci' = 0
  /\ li' = 0
  /\ processed_count' = 0
  /\ success_count' = 0
  /\ failed_count' = 0
  /\ success' = FALSE
  /\ resp' = NoResp
  /\ fs0' = fs
  /\ found' = [e \in Entries |-> "unreached"]
  /\ out' = [e \in Entries |-> "pending"]
  /\ ncalls' = [e \in Entries |-> 0]
  /\ inflight' = {}
  /\ order' = <<>>
  /\ delayed' = {}
  /\ wrote' = {}
  /\ wrotePrev' = wrotePrev \cup wrote
  /\ UNCHANGED fs
  /\ slept' = -1
  /\ UNCHANGED <<san, box>>

\* one run of the program
Run ==
  \/ Start
  \/ EnterCategory
  \/ Summary
  \/ EndCategory
  \/ BeginLocation
  \/ download_osm_data
  \/ Count
  \/ Wake

Next == Run \/ Restart

\* any number of runs against one output directory
Spec == Init /\ [][Next]_vars

\* a single run; every step of the single-threaded program is eventually
\* taken: requests.post returns (it has a timeout) and time.sleep returns
LiveSpec == Init /\ [][Run]_vars /\ WF_vars(Run)

(***************************************************************************)
(* The helper functions on their own: the driver does not run.             *)
(***************************************************************************)
driverVars == <<pc, ci, li, processed_count, success_count, failed_count,
                success, resp, fs, fs0, found, out, ncalls, inflight, order,
                delayed, wrote, wrotePrev, slept>>

\* the driver has not been started and the output directory is empty
Idle ==
  /\ pc = "idle"
  /\ ci = 0
  /\ li = 0
  /\ processed_count = 0
  /\ success_count = 0
  /\ failed_count = 0
  /\ success = FALSE
  /\ resp = NoResp
  /\ fs = [p \in Paths |-> "absent"]
  /\ fs0 = fs
  /\ found = [e \in Entries |-> "unreached"]
  /\ out = [e \in Entries |-> "pending"]
  /\ ncalls = [e \in Entries |-> 0]
  /\ inflight = {}
  /\ order = <<>>
  /\ delayed = {}
  /\ wrote = {}
  /\ wrotePrev = {}
  /\ slept = -1

\* the characters names are made of: one of each kind sanitize_filename tells
\* apart, and two separators
Alphabet == {" ", "/", "a", "é", "_", "-", ".", "!"}

\* "  Central Hong Kong! "
CentralHongKongRaw ==
  <<" "," ","C","e","n","t","r","a","l"," ","H","o","n","g"," ","K","o","n","g","!"," ">>

\* the names sanitize_filename is applied to
Names ==
  UNION { [1..n -> Alphabet] : n \in 0..MaxNameLen } \cup {CentralHongKongRaw}

SanInit ==
  /\ Idle
  /\ box = NoCall
  /\ \E n \in Names :
       san = [fn |-> "sanitize_filename", name |-> n, calls |-> 0,
              result |-> <<>>, again |-> <<>>]

\* sanitize_filename(name)
Sanitize ==
  /\ san.fn = "sanitize_filename"
  /\ san.calls = 0
  /\ san' = [san EXCEPT !.calls = 1, !.result = sanitize_filename(san.name)]
  /\ UNCHANGED <<driverVars, box>>

\* sanitize_filename applied to its own result
SanitizeAgain ==
  /\ san.fn = "sanitize_filename"
  /\ san.calls = 1
  /\ san' = [san EXCEPT !.calls = 2, !.again = sanitize_filename(san.result)]
  /\ UNCHANGED <<driverVars, box>>

SanNext == Sanitize \/ SanitizeAgain

\* sanitize_filename on every name over Alphabet up to MaxNameLen
SanSpec == SanInit /\ [][SanNext]_vars

\* the center latitudes: the equator, mid latitudes, latitudes whose box
\* crosses a power of two, latitudes around the pole threshold, the poles
\* and a latitude beyond the pole; all are floats
LatSamples == { t[1] : t \in CosTable }

\* the center longitudes, some next to a power of two; all are floats
LonSamples == {0, -126000, 8000000, 16780000, 33555000, 121505000, 179995008}

\* the side lengths in km; BOX_SIZE_KM is 2
SizeSamples == {1, 2, 4}

\* no box has been computed
NoBox ==
  [raised |-> FALSE, warned |-> FALSE, divisor |-> 0, delta_lat_deg |-> 0,
   delta_lon_deg |-> 0, min_lat |-> 0, min_lon |-> 0, max_lat |-> 0,
   max_lon |-> 0]

BoxInit ==
  /\ Idle
  /\ san = NoCall
  /\ \E lat \in LatSamples, lon \in LonSamples, size \in SizeSamples :
       box = [fn |-> "calculate_bounding_box", lat_deg |-> lat,
              lon_deg |-> lon, size_km |-> size, calls |-> 0,
              bbox |-> NoBox]

\* bbox = calculate_bounding_box(lat, lon, size_km)
ComputeBox ==
  /\ box.fn = "calculate_bounding_box"
  /\ box.calls = 0
  /\ box' = [box EXCEPT
               !.calls = 1,
               !.bbox = calculate_bounding_box(box.lat_deg, box.lon_deg,
                                               box.size_km)]
  /\ UNCHANGED <<driverVars, san>>

BoxNext == ComputeBox

\* calculate_bounding_box on every sample center and side length
BoxSpec == BoxInit /\ [][BoxNext]_vars

(***************************************************************************)
(* Notions the properties are stated with.                                 *)
(***************************************************************************)
RECURSIVE EntriesFrom(_)
EntriesFrom(c) ==
  IF c > NumCategories THEN <<>>
  ELSE [i \in 1..Len(scenes[c].locations) |-> <<c, i>>] \o EntriesFrom(c + 1)

\* the catalog entries in declaration order
CatalogOrder == EntriesFrom(1)

\* the very last location of the catalog
LastEntry == CatalogOrder[Len(CatalogOrder)]

\* the entries the run has reached
Reached == { order[k] : k \in 1..Len(order) }

\* the entry whose download returned and is not in the counters yet
Uncounted == IF pc = "returned" THEN {order[Len(order)]} ELSE {}

\* the run stands between two locations, or at the summary
BetweenLocations == pc \in {"location", "category", "done"}

(***************************************************************************)
(* C1.  A location whose file exists when the driver reaches it gets no    *)
(* network call, its file keeps the content it had, and it is counted as   *)
(* a success.                                                              *)
(***************************************************************************)
C1_SkipExisting ==
  /\ \A e \in Entries :
       found[e] \notin {"unreached", "absent"} =>
         /\ ncalls[e] = 0
         /\ fs[output_path[e]] = found[e]
         /\ out[e] = "skipped"
  /\ success_count =
       Cardinality({ e \in Entries \ Uncounted : out[e] \in {"skipped", "ok"} })

C1_Witness ==
  /\ pc = "done"
  /\ \E e \in Entries : found[e] = "old" /\ out[e] = "skipped"
  /\ \E e \in Entries : found[e] = "absent"

(***************************************************************************)
(* C2.  A run issues no network call for a location whose file an earlier  *)
(* run against the same output directory wrote, whatever the outcomes of   *)
(* the earlier run's network calls were.                                   *)
(***************************************************************************)
C2_IdempotentRerun == \A e \in wrotePrev : ncalls[e] = 0

C2_Witness ==
  /\ pc = "done"
  /\ \E e \in wrotePrev : out[e] = "skipped"
  /\ \E e \in Entries : e \notin wrotePrev /\ ncalls[e] = 1

(***************************************************************************)
(* C3.  A failed fetch does not end the batch: at the summary every        *)
(* location of the catalog has been processed, and failed_count is the     *)
(* number of locations whose fetch failed.                                 *)
(***************************************************************************)
C3_FailureIsolation ==
  pc = "done" =>
    /\ order = CatalogOrder
    /\ \A e \in Entries : out[e] # "pending"
    /\ failed_count = Cardinality({ e \in Entries : out[e] = "failed" })

C3_Witness ==
  /\ pc = "done"
  /\ out[CatalogOrder[1]] = "failed"
  /\ out[LastEntry] = "ok"
  /\ failed_count = 1

(***************************************************************************)
(* C4.  The driver sleeps after a location if and only if a network call   *)
(* was issued for it and it is not the last location of the catalog; a     *)
(* run that skips nothing sleeps total_locations - 1 times.                *)
(***************************************************************************)
C4_DelayIffCalled ==
  BetweenLocations =>
    /\ \A e \in Reached : e \in delayed <=> (ncalls[e] > 0 /\ e # LastEntry)
    /\ delayed \subseteq Reached
    /\ (pc = "done" /\ \A e \in Entries : ncalls[e] > 0) =>
         Cardinality(delayed) = total_locations - 1

C4_Witness ==
  /\ pc = "done"
  /\ \A e \in Entries : ncalls[e] > 0
  /\ Cardinality(delayed) = total_locations - 1
  /\ \E e \in Entries : out[e] = "failed" /\ e \in delayed

(***************************************************************************)
(* C5.  Locations are reached in catalog order, one at a time: when a      *)
(* location is reached every earlier one is settled, at most one network   *)
(* call is in flight, and it is the call of the location reached last.     *)
(***************************************************************************)
C5_SequentialOrder ==
  /\ Len(order) <= Len(CatalogOrder)
  /\ order = SubSeq(CatalogOrder, 1, Len(order))
  /\ \A k \in 1..(Len(order) - 1) : out[order[k]] # "pending"
  /\ Cardinality(inflight) <= 1
  /\ inflight # {} => pc = "request" /\ inflight = {order[Len(order)]}
  /\ pc = "request" => inflight # {}

C5_Witness ==
  /\ pc = "request"
  /\ Len(order) = total_locations
  /\ inflight = {LastEntry}

(***************************************************************************)
(* C6.  Unless creating a directory fails, a run ends at the summary with  *)
(* processed_count equal to the number of catalog locations, whatever      *)
(* files exist at the start and whatever each network call and each write  *)
(* does.                                                                   *)
(***************************************************************************)
C6_Terminates ==
  /\ <>(pc = "aborted" \/ (pc = "done" /\ processed_count = total_locations))
  /\ [](pc = "done" => processed_count = total_locations)

C6_Witness ==
  /\ pc = "done"
  /\ processed_count = total_locations
  /\ \E e \in Entries : out[e] = "failed"
  /\ \E e \in Entries : out[e] = "skipped"
  /\ \E e \in Entries : out[e] = "ok"

\* the path of the location whose download returned
ReturnedPath == output_path[order[Len(order)]]

(***************************************************************************)
(* C7 as stated.  download_osm_data returns success if and only if the     *)
(* response has a 2xx status, and after a 2xx response the file holds the  *)
(* payload.                                                                *)
(***************************************************************************)
C7_SuccessIff2xx ==
  (pc = "returned" /\ resp.kind = "response") =>
    /\ success <=> resp.status \in 200..299
    /\ resp.status \in 200..299 => fs[ReturnedPath] = resp.content

(***************************************************************************)
(* C7 as amended.  download_osm_data returns success if and only if the    *)
(* response has no 4xx or 5xx status and the file is opened and written    *)
(* without error; the file then holds exactly the payload.  A response     *)
(* with a 4xx or 5xx status is a failure and no file is opened for it.     *)
(***************************************************************************)
C7_SuccessIffNoErrorStatusAndWritten ==
  (pc = "returned" /\ resp.kind = "response") =>
    /\ success <=> (resp.status \notin 400..599 /\ resp.io = "written")
    /\ success => fs[ReturnedPath] = resp.content
    /\ resp.status \in 400..599 =>
         ~success /\ resp.io = "none" /\ fs[ReturnedPath] = "absent"

C7_Witness ==
  /\ pc = "returned"
  /\ resp.kind = "response"
  /\ resp.status = 304
  /\ success
  /\ fs[ReturnedPath] = "p2"

(***************************************************************************)
(* C8 as stated.  At the end of a run the files the run created are those  *)
(* of the locations it fetched successfully, and a location whose fetch    *)
(* failed has no file at its path unless one was there before the run.     *)
(***************************************************************************)
C8_NoFileForFailedLocation ==
  pc = "done" =>
    /\ wrote = { e \in Entries : out[e] = "ok" }
    /\ \A e \in Entries :
         out[e] = "failed" =>
           ~Exists(fs, output_path[e]) \/ Exists(fs0, output_path[e])

(***************************************************************************)
(* C9.  Within one run no location gets more than one network call.        *)
(***************************************************************************)
C9_NoRetry == \A e \in Entries : ncalls[e] <= 1

C9_Witness ==
  /\ pc = "done"
  /\ \E e \in Entries : ncalls[e] = 1 /\ out[e] = "failed"
  /\ \E e \in Entries : ncalls[e] = 1 /\ out[e] = "ok"

C11_SanitizeIdempotent == san.calls = 2 => san.again = san.result

C11_Witness ==
  /\ san.calls = 2
  /\ san.name = <<" ", "!", "_", "a">>
  /\ san.result = <<"a">>
  /\ san.again = <<"a">>

\* a string neither starts nor ends with '_' or '-'
NoEdgeUnderscoreOrHyphen(s) ==
  s # <<>> => s[1] \notin {"_", "-"} /\ s[Len(s)] \notin {"_", "-"}

\* [A-Za-z0-9_.-]
AsciiFilenameChars == (Letters \ {"é"}) \cup Digits \cup {"_", ".", "-"}

(***************************************************************************)
(* C12 as stated.  For every name sanitize_filename returns a non-empty    *)
(* string of characters of [A-Za-z0-9_.-] that neither starts nor ends     *)
(* with '_' or '-'.                                                        *)
(***************************************************************************)
C12_AsciiOnly ==
  san.calls >= 1 =>
    /\ san.result # <<>>
    /\ \A i \in 1..Len(san.result) : san.result[i] \in AsciiFilenameChars
    /\ NoEdgeUnderscoreOrHyphen(san.result)

(***************************************************************************)
(* C12 as amended.  For every name sanitize_filename returns a non-empty   *)
(* string of alphanumeric characters (non-ASCII letters and digits         *)
(* included), '_', '.' and '-' that neither starts nor ends with '_' or    *)
(* '-'.                                                                    *)
(***************************************************************************)
C12_WordCharsOnly ==
  san.calls >= 1 =>
    /\ san.result # <<>>
    /\ \A i \in 1..Len(san.result) :
         san.result[i] \in Letters \cup Digits \cup {"_", ".", "-"}
    /\ NoEdgeUnderscoreOrHyphen(san.result)

C12_Witness ==
  /\ san.calls >= 1
  /\ san.name = <<"-", "é", "!", "_">>
  /\ san.result = <<"é">>

\* the elements of s at the positions of K, in order
Pick(s, K) ==
  LET F[i \in 0..Len(s)] ==
        IF i = 0 THEN <<>>
        ELSE IF i \in K THEN Append(F[i - 1], s[i]) ELSE F[i - 1]
  IN  F[Len(s)]

\* s without its leading and trailing characters of set
Trimmed(s, set) ==
  LET keep == { i \in 1..Len(s) : s[i] \notin set }
  IN  Pick(s, { i \in 1..Len(s) :
                  (\E j \in keep : j <= i) /\ (\E j \in keep : j >= i) })

\* the six rules of the sanitizer, each stated on positions of the string
Rule1(s) == Trimmed(s, Whitespace)

Rule2(s) ==
  LET sep(i) == s[i] \in Whitespace \cup {"/", "\\", ":"}
      t == [i \in 1..Len(s) |-> IF sep(i) THEN "_" ELSE s[i]]
  IN  Pick(t, { i \in 1..Len(s) : ~sep(i) \/ i = 1 \/ ~sep(i - 1) })

Rule3(s) ==
  Pick(s, { i \in 1..Len(s) : s[i] \in Letters \cup Digits \cup {"_", "-", "."} })

Rule4(s) ==
  Pick(s, { i \in 1..Len(s) :
              ~(s[i] \in {"_", "-"} /\ i > 1 /\ s[i - 1] = s[i]) })

Rule5(s) == Trimmed(s, {"_", "-"})

Rule6(s) == IF Len(s) = 0 THEN <<"u","n","n","a","m","e","d">> ELSE s

SixRules(s) == Rule6(Rule5(Rule4(Rule3(Rule2(Rule1(s))))))

(***************************************************************************)
(* C13.  sanitize_filename returns what the six rules applied in order     *)
(* give, and "  Central Hong Kong! " becomes "Central_Hong_Kong".          *)
(***************************************************************************)
C13_SixRules ==
  san.calls >= 1 =>
    /\ san.result = SixRules(san.name)
    /\ san.name = CentralHongKongRaw =>
         san.result = <<"C","e","n","t","r","a","l","_","H","o","n","g","_","K","o","n","g">>

C13_Witness ==
  /\ san.calls = 1
  /\ san.name = CentralHongKongRaw
  /\ san.result = <<"C","e","n","t","r","a","l","_","H","o","n","g","_","K","o","n","g">>

MaxAbs(x, y) == IF Abs(x) > Abs(y) THEN Abs(x) ELSE Abs(y)

C15_PoleFallback ==
  box.calls = 1 =>
    LET b == box.bbox
        half_m == box.size_km * 500
        radius == Fl(earth_radius_km * Cos(box.lat_deg))
        reference == Fl(earth_radius_km * Cos(1000000))
    IN  /\ ~b.raised
        /\ b.divisor >= pole_radius
        /\ b.warned <=> radius < pole_radius
        /\ b.warned =>
             /\ b.divisor = reference
             /\ b.delta_lon_deg = Degrees(HalfOverRadius(half_m, reference))
        /\ ~b.warned =>
             /\ b.divisor = radius
             /\ b.delta_lon_deg = Degrees(HalfOverRadius(half_m, radius))
        /\ b.max_lon = Fl(box.lon_deg + b.delta_lon_deg)
        /\ b.min_lon = Fl(box.lon_deg - b.delta_lon_deg)

\* a positive parallel radius below the threshold
C15_Witness ==
  /\ box.calls = 1
  /\ box.lat_deg = 89999400
  /\ box.bbox.warned
  /\ box.bbox.divisor > 63000000

(***************************************************************************)
(* C16.  Between two locations and at the summary processed_count is       *)
(* success_count + failed_count; every location reached adds one to        *)
(* processed_count and one to exactly one of success_count (skipped or     *)
(* fetched) and failed_count; at the summary processed_count is the        *)
(* number of catalog locations.                                            *)
(***************************************************************************)
C16_CountersAddUp ==
  LET counted == Reached \ (inflight \cup Uncounted)
  IN  /\ processed_count = Len(order)
      /\ success_count =
           Cardinality({ e \in counted : out[e] \in {"skipped", "ok"} })
      /\ failed_count = Cardinality({ e \in counted : out[e] = "failed" })
      /\ success_count + failed_count = Cardinality(counted)
      /\ pc \notin {"request", "returned"} =>
           processed_count = success_count + failed_count
      /\ pc = "done" => processed_count = total_locations

C16_Witness ==
  /\ pc = "done"
  /\ processed_count = total_locations
  /\ failed_count = 1
  /\ \E e \in Entries : out[e] = "skipped"
  /\ \E e \in Entries : out[e] = "ok"

(***************************************************************************)
(* C17.  Within a run a network call that follows an earlier one is        *)
(* issued only after the driver has slept API_DELAY seconds since the      *)
(* earlier call returned, also when skipped locations lie between the two. *)
(***************************************************************************)
C17_DelayBetweenCalls ==
  (pc = "request" /\ \E e \in Entries \ inflight : ncalls[e] > 0) =>
    slept >= API_DELAY

\* a second call with a skipped location between it and the first
C17_Witness ==
  /\ pc = "request"
  /\ slept = API_DELAY
  /\ \E i, j, k \in 1..Len(order) :
       /\ i < j /\ j < k
       /\ out[order[i]] = "failed"
       /\ out[order[j]] = "skipped"
       /\ order[k] \in inflight

====
